---- MODULE Spec2Model ----
(***************************************************************************)
(* Model of the in-memory retrieval subsystem of the RAG example           *)
(* (src/examples/advanced/01-rag-system.js): the VectorStore class with    *)
(* its chunker (splitIntoChunks), cosine similarity, ingest (addDocument), *)
(* top-K search and getStats; and of the two conversation histories, the   *)
(* chatbot's (src/examples/beginner/02-chatbot.js) and InteractiveRAG's.   *)
(*                                                                         *)
(* A metadata object is kept in heap and held by reference, as JavaScript  *)
(* holds it, so that two holders of one object see each other's writes.    *)
(*                                                                         *)
(* Strings are sequences of one-character strings.  A JavaScript number    *)
(* produced by cosineSimilarity is kept symbolically (see Ratio) and       *)
(* compared by its real value; on the vectors enumerated here two scores   *)
(* for one query are equal as reals exactly when the same floating-point   *)
(* operations produced them, so rounding does not change an order.  Where  *)
(* the exact double matters (a result compared with the number 1) the      *)
(* rounding of line 100 is taken from its IEEE-754 evaluation.             *)
(***************************************************************************)
EXTENDS Integers, Sequences, FiniteSets, TLC

VARIABLES
    text,        \* chunker run: the argument `text` of splitIntoChunks
    maxLength,   \* chunker run: the argument `maxLength`
    chunks,      \* chunker run: the returned array (groups, see ChunkLoop)
    cpc,         \* chunker run: "call" before the call, "done" after it
    documents,   \* VectorStore.documents
    heap,        \* the metadata objects handed to addDocument, by reference
    stats,       \* what the last call of getStats returned
    calls,       \* the addDocument calls in flight, by call slot
    kb,          \* buildKnowledgeBase: how many sample documents were handed in
    spc,         \* search call: "idle", "await" (embedding requested), "done"
    topK,        \* search call: its argument topK
    queryRequests,  \* search call: embedding requests it has issued
    queryEmbedding, \* search call: what createEmbedding(query) resolved to
    ranking,     \* search call: `similarities` after the sort
    result,      \* search call: the returned array
    argVec1,        \* cosine run: first argument of cosineSimilarity
    argVec2,        \* cosine run: second argument
    sim,         \* cosine run: the returned number
    vpc,         \* cosine run: "call" before the call, "done" after it
    conversationHistory,  \* chatbot: the module-level array conversationHistory
    bpc,         \* chatbot: "idle", or "await" while getChatbotResponse waits
    ragHistory,  \* InteractiveRAG: this.conversationHistory
    message,     \* InteractiveRAG.chat: its argument `message`
    messages,    \* InteractiveRAG.chat: the array `messages` of the last request
    rpc          \* InteractiveRAG.chat: "idle", "search", "await"

chunkVars == <<text, maxLength, chunks, cpc>>
storeVars == <<documents, heap, stats, calls, kb, spc, topK, queryRequests, queryEmbedding,
               ranking, result>>
cosVars == <<argVec1, argVec2, sim, vpc>>
chatVars == <<conversationHistory, bpc, ragHistory, message, messages, rpc>>
vars == <<chunkVars, storeVars, cosVars, chatVars>>

----------------------------------------------------------------------------
(* Bounds of the chunker runs *)

MaxTextLen == 6      \* longest enumerated input text
MaxChunkLen == 4     \* largest enumerated maxLength

Alphabet == {"a", ".", " "}

----------------------------------------------------------------------------
(* String helpers: what the JavaScript built-ins do *)

\* the character class [.!?] of the split regex
IsTerminal(c) == c \in {".", "!", "?"}

\* the character class \s (the members that occur in the model's texts)
IsSpace(c) == c \in {" ", "\n", "\t"}

\* String.prototype.trim
Trim(s) ==
    IF \A i \in 1..Len(s) : IsSpace(s[i]) THEN <<>>
    ELSE LET first == CHOOSE i \in 1..Len(s) :
                         ~IsSpace(s[i]) /\ \A j \in 1..(i-1) : IsSpace(s[j])
             last  == CHOOSE i \in 1..Len(s) :
                         ~IsSpace(s[i]) /\ \A j \in (i+1)..Len(s) : IsSpace(s[j])
         IN  SubSeq(s, first, last)

\* positions where /[.!?]\s+/ matches: a terminal followed by whitespace
MatchStarts(t) ==
    {q \in 1..(Len(t) - 1) : IsTerminal(t[q]) /\ IsSpace(t[q+1])}

\* first position after the (greedy) whitespace run of the match at q
MatchEnd(t, q) ==
    CHOOSE e \in (q+2)..(Len(t)+1) :
        /\ \A i \in (q+1)..(e-1) : IsSpace(t[i])
        /\ e = Len(t) + 1 \/ ~IsSpace(t[e])

\* the k-th match, in text order
KthMatch(t, k) ==
    CHOOSE q \in MatchStarts(t) :
        Cardinality({r \in MatchStarts(t) : r < q}) = k - 1

\* text.split(/[.!?]\s+/): the pieces between the matches; the separators
\* (terminal and whitespace) are not part of any piece
SplitSentences(t) ==
    LET n == Cardinality(MatchStarts(t))
    IN  [k \in 1..(n+1) |->
            LET from == IF k = 1 THEN 1 ELSE MatchEnd(t, KthMatch(t, k-1))
                to   == IF k = n + 1 THEN Len(t) ELSE KthMatch(t, k) - 1
            IN  SubSeq(t, from, to)]

----------------------------------------------------------------------------
(* splitIntoChunks *)

\* one emitted chunk: its text, and the sentences accumulated into it
Group(cur, sents) == [text |-> Trim(cur), sentences |-> sents]

\* the test of line 56: (currentChunk + sentence).length > maxLength && currentChunk
MustClose(cur, sentence, max) ==
    Len(cur) + Len(sentence) > max /\ Len(cur) > 0

\* the for loop of lines 55-62 from sentence i on, then lines 64-66
RECURSIVE ChunkLoop(_, _, _, _, _, _)
ChunkLoop(sentences, i, max, out, cur, curSents) ==
    IF i > Len(sentences)
    THEN IF Len(cur) > 0 THEN Append(out, Group(cur, curSents)) ELSE out
    ELSE LET sentence == sentences[i] IN
         IF MustClose(cur, sentence, max)
         THEN ChunkLoop(sentences, i + 1, max,
                        Append(out, Group(cur, curSents)), sentence, <<sentence>>)
         ELSE ChunkLoop(sentences, i + 1, max, out,
                        cur \o (IF Len(cur) > 0 THEN <<" ">> ELSE <<>>) \o sentence,
                        Append(curSents, sentence))

ChunkGroups(t, max) == ChunkLoop(SplitSentences(t), 1, max, <<>>, <<>>, <<>>)

\* the returned array of strings
SplitIntoChunks(t, max) ==
    LET g == ChunkGroups(t, max) IN [k \in 1..Len(g) |-> g[k].text]

----------------------------------------------------------------------------
(* Numbers returned by cosineSimilarity *)

MaxComp == 1     \* cosine runs: components range over -MaxComp..MaxComp

\* createEmbedding returns null when the request throws (lines 80-83).  The
\* provider's vectors are not empty, so the empty tuple stands for null.
Null == <<>>

\* the vectors the embedding provider returns, all of one length
Vectors == {<<0, 0>>, <<1, 0>>, <<0, 1>>, <<1, 1>>}

\* what `await this.createEmbedding(...)` can resolve to
EmbeddingOutcomes == Vectors \cup {Null}

\* The number dot / (sqrt(n1) * sqrt(n2)) is kept as the triple (dot, n1, n2)
\* when n1 and n2 are positive, and is NaN when one of them is 0 (the dot
\* product is then 0 as well, and 0 / 0 is NaN).  Numbers are compared by
\* their real value.
NaN == [kind |-> "NaN"]
Ratio(dot, n1, n2) == [kind |-> "num", dot |-> dot, n1 |-> n1, n2 |-> n2]
Zero == Ratio(0, 1, 1)

IsNaN(x) == x.kind = "NaN"

Sgn(n) == IF n > 0 THEN 1 ELSE IF n < 0 THEN -1 ELSE 0

\* x < y for two numbers that are not NaN:
\* a/sqrt(A) < b/sqrt(B)  iff  sgn(a) a^2 B < sgn(b) b^2 A
RealLess(x, y) ==
    Sgn(x.dot) * x.dot * x.dot * (y.n1 * y.n2)
        < Sgn(y.dot) * y.dot * y.dot * (x.n1 * x.n2)

\* the JavaScript comparisons x == y and x >= y (false when either is NaN)
NumEq(x, y) == ~IsNaN(x) /\ ~IsNaN(y) /\ ~RealLess(x, y) /\ ~RealLess(y, x)
NumGeq(x, y) == ~IsNaN(x) /\ ~IsNaN(y) /\ ~RealLess(x, y)

One == Ratio(1, 1, 1)

\* Rounding of line 100 for a vector against itself, where dotProduct, norm1
\* and norm2 are one integer n: the n up to 18 for which the double
\* n / (Math.sqrt(n) * Math.sqrt(n)) is exactly 1.  For every other n the
\* double is 1 - 2^-52, 1 - 2^-53 or 1 + 2^-52 (IEEE-754 binary64, round to
\* nearest; n = 2 gives 0.9999999999999998).
ExactSelfNorms == {1, 4, 9, 11, 14, 16, 17}

\* the double x, returned for a vector against itself, is exactly 1 (x === 1)
SelfIsExactlyOne(x) ==
    ~IsNaN(x) /\ x.dot = x.n1 /\ x.n1 = x.n2 /\ x.n1 \in ExactSelfNorms

\* a division by the product of the squared norms, the roots forgotten
QuotientNoSqrt(dot, n1, n2) ==
    IF n1 = 0 \/ n2 = 0 THEN NaN ELSE Ratio(dot, n1 * n1, n2 * n2)

\* dotProduct / (Math.sqrt(norm1) * Math.sqrt(norm2)), line 100
Quotient(dot, n1, n2) ==
    IF n1 = 0 \/ n2 = 0 THEN NaN ELSE Ratio(dot, n1, n2)

RECURSIVE SumProducts(_, _, _)
SumProducts(v, w, i) ==
    IF i = 0 THEN 0 ELSE SumProducts(v, w, i - 1) + v[i] * w[i]

\* a guard that gives up with NaN in place of 0
CosineNaNGuard(vec1, vec2) ==
    IF vec1 = Null \/ vec2 = Null THEN NaN
    ELSE IF Len(vec2) < Len(vec1) THEN NaN
    ELSE Quotient(SumProducts(vec1, vec2, Len(vec1)),
                  SumProducts(vec1, vec1, Len(vec1)),
                  SumProducts(vec2, vec2, Len(vec1)))

\* cosineSimilarity, lines 87-101.  The loop runs over vec1.length; reading
\* vec2 past its end gives undefined, and the sums become NaN.
CosineSimilarity(vec1, vec2) ==
    IF vec1 = Null \/ vec2 = Null THEN Zero
    ELSE IF Len(vec2) < Len(vec1) THEN NaN
    ELSE Quotient(SumProducts(vec1, vec2, Len(vec1)),
                  SumProducts(vec1, vec1, Len(vec1)),
                  SumProducts(vec2, vec2, Len(vec1)))

----------------------------------------------------------------------------
(* Array.prototype.sort with the comparator of line 118 *)

\* the comparator with its operands exchanged: an ascending sort
SortCompareAscending(a, b) ==
    IF IsNaN(a.similarity) \/ IsNaN(b.similarity) THEN 0
    ELSE IF RealLess(a.similarity, b.similarity) THEN -1
    ELSE IF RealLess(b.similarity, a.similarity) THEN 1
    ELSE 0

\* (a, b) => b.similarity - a.similarity; a NaN result is taken as +0
SortCompare(a, b) ==
    IF IsNaN(a.similarity) \/ IsNaN(b.similarity) THEN 0
    ELSE IF RealLess(a.similarity, b.similarity) THEN 1
    ELSE IF RealLess(b.similarity, a.similarity) THEN -1
    ELSE 0

\* ECMAScript: the comparator is consistent for the values being sorted
ConsistentComparator(s) ==
    \A i, j, k \in DOMAIN s :
        /\ SortCompare(s[i], s[i]) = 0
        /\ SortCompare(s[i], s[j]) = 0 => SortCompare(s[j], s[i]) = 0
        /\ SortCompare(s[i], s[j]) = 0 /\ SortCompare(s[j], s[k]) = 0
              => SortCompare(s[i], s[k]) = 0
        /\ SortCompare(s[i], s[j]) < 0 /\ SortCompare(s[j], s[k]) < 0
              => SortCompare(s[i], s[k]) < 0
        /\ SortCompare(s[i], s[j]) > 0 /\ SortCompare(s[j], s[k]) > 0
              => SortCompare(s[i], s[k]) > 0

IndexPermutations(n) ==
    {p \in [1..n -> 1..n] : \A i, j \in 1..n : i # j => p[i] # p[j]}

\* p orders s by the comparator, and keeps equal elements in their order
IsStableOrder(s, p) ==
    \A i, j \in DOMAIN s :
        i < j => \/ SortCompare(s[p[i]], s[p[j]]) < 0
                 \/ SortCompare(s[p[i]], s[p[j]]) = 0 /\ p[i] < p[j]

\* The arrays sort can leave behind: the stable order when the comparator is
\* consistent; otherwise the order is implementation-defined, any permutation.
SortOutcomes(s) ==
    LET n == Len(s)
        ps == IF ConsistentComparator(s)
              THEN {p \in IndexPermutations(n) : IsStableOrder(s, p)}
              ELSE IndexPermutations(n)
    IN  {[i \in 1..n |-> s[p[i]]] : p \in ps}

----------------------------------------------------------------------------
(* VectorStore *)

ChunkSize == 500   \* the maxLength addDocument passes to splitIntoChunks
MaxCalls == 2      \* addDocument calls that can be in flight at once
MaxDocs == 3       \* sample documents of the knowledge base
MaxIngest == 2     \* passages stored by direct addDocument calls
MaxK == 3          \* largest topK passed to search
MaxIssued == 2     \* sample documents handed in by overlapping calls

Min(a, b) == IF a < b THEN a ELSE b

Repeat(c, n) == [i \in 1..n |-> c]

\* buildKnowledgeBase's sample documents (lines 151-187), each one short
\* sentence with its own title
Corpus(i) == [title |-> i, content |-> Repeat("a", i) \o <<".">>]

\* documents handed to addDocument directly: empty, blank, one short
\* sentence, and two sentences that do not fit one chunk together
DocTexts ==
    { <<>>,
      <<" ", " ">>,
      <<"a", ".">>,
      Repeat("a", ChunkSize - 1) \o <<".", " ">> \o <<"b", "b">> }

Metadata == {[title |-> 1], [title |-> 2]}

\* A metadata object is held by reference: the `metadata` field of a call, of
\* a passage and of a search result is the object's position in heap.
NoRef == 0

\* a call slot: `next` is the position of the chunk whose embedding is
\* awaited, `requests` the number of embedding requests the call has issued
IdleCall == [pc |-> "idle", chunks |-> <<>>, next |-> 0, requests |-> 0, metadata |-> NoRef]

\* a reduce whose initial value is 1
RECURSIVE TotalCharactersFromOne(_, _)
TotalCharactersFromOne(docs, n) ==
    IF n = 0 THEN 1 ELSE TotalCharactersFromOne(docs, n - 1) + Len(docs[n].text)

\* the reduce of line 132, with initial value 0
RECURSIVE TotalCharacters(_, _)
TotalCharacters(docs, n) ==
    IF n = 0 THEN 0 ELSE TotalCharacters(docs, n - 1) + Len(docs[n].text)

\* getStats, lines 129-137
GetStats(docs) ==
    [documentCount |-> Len(docs),
     totalCharacters |-> TotalCharacters(docs, Len(docs)),
     averageChunkSize |-> IF Len(docs) > 0
                          THEN TotalCharacters(docs, Len(docs)) \div Len(docs)
                          ELSE 0]

----------------------------------------------------------------------------
(* Conversations: the chatbot's history and InteractiveRAG's history *)

\* the longest history enumerated, the chatbot's system message included
MaxHistory == 7

\* the 5 of slice(-5)
HistoryWindow == 5

\* what a user types, what the model answers, and what the retrieved
\* passages join to (empty when search returns nothing)
UserMessages == {"q1", "q2"}
Answers == {"a1"}
Contexts == {"", "passage"}

\* the chatbot's first entry, lines 54-57
SystemMessage == [role |-> "system", content |-> "persona"]

\* the system message chat builds around the retrieved context
RagSystemMessage(context) == [role |-> "system", content |-> <<"instructions", context>>]

\* array.slice(0, n), the first n entries
SliceFromStart(h, n) == IF Len(h) <= n THEN h ELSE SubSeq(h, 1, n)

\* array.slice(-n), the last n entries (the whole array when it is shorter)
SliceLast(h, n) == IF Len(h) <= n THEN h ELSE SubSeq(h, Len(h) - n + 1, Len(h))

\* the array `messages` of chat
Messages(context, h) == <<RagSystemMessage(context)>> \o SliceLast(h, HistoryWindow)

ChatIdle ==
    /\ conversationHistory = <<SystemMessage>>
    /\ bpc = "idle"
    /\ ragHistory = <<>>
    /\ message = ""
    /\ messages = <<>>
    /\ rpc = "idle"

CosIdle ==
    /\ argVec1 = Null
    /\ argVec2 = Null
    /\ sim = Zero
    /\ vpc = "done"

\* no call of getStats has returned yet
NoStats == [documentCount |-> -1, totalCharacters |-> -1, averageChunkSize |-> -1]

StoreIdle ==
    /\ documents = <<>>
    /\ heap = <<>>
    /\ stats = NoStats
    /\ calls = [c \in 1..MaxCalls |-> IdleCall]
    /\ kb = 0
    /\ spc = "idle"
    /\ topK = 0
    /\ queryRequests = 0
    /\ queryEmbedding = Null
    /\ ranking = <<>>
    /\ result = <<>>

\* every chunk's embedding is requested at once
AllRequests(cs) == Len(cs)

\* the first round of the loop calls createEmbedding once (line 38)
FirstRequests(cs) == 1

\* addDocument up to its first await (lines 32-38): the text is chunked and
\* the embedding of the first chunk is requested; with no chunk it returns.
\* meta is the reference of the caller's metadata object.
AddDocument(c, t, meta) ==
    /\ calls[c].pc = "idle"
    /\ LET cs == SplitIntoChunks(t, ChunkSize) IN
         calls' = [calls EXCEPT ![c] =
                IF Len(cs) = 0 THEN IdleCall
                ELSE [pc |-> "await", chunks |-> cs, next |-> 1,
                      requests |-> FirstRequests(cs), metadata |-> meta]]
    /\ UNCHANGED <<documents, stats, spc, topK, queryRequests, queryEmbedding, ranking, result, chunkVars, cosVars, chatVars>>

\* a passage whose id is the length of this.embeddings, which stays empty
PassageIdOfEmbeddings(id, chunk, meta, embedding) ==
    [id |-> 0, text |-> chunk, metadata |-> meta, embedding |-> embedding]

\* the object pushed at lines 40-45
Passage(id, chunk, meta, embedding) ==
    [id |-> id, text |-> chunk, metadata |-> meta, embedding |-> embedding]

\* a push that leaves the embedding out of the passage
PushNoEmbedding(docs, chunk, meta, embedding) ==
    Append(docs, Passage(Len(docs), chunk, meta, Null))

\* a push that takes the id from the length after the push
PushIdAfter(docs, chunk, meta, embedding) ==
    Append(docs, Passage(Len(docs) + 1, chunk, meta, embedding))

\* an unshift in place of the push: the passage goes to the front
PushFront(docs, chunk, meta, embedding) ==
    <<Passage(Len(docs), chunk, meta, embedding)>> \o docs

\* a push that skips the chunk whose embedding is null
PushUnlessNull(docs, chunk, meta, embedding) ==
    IF embedding = Null THEN docs
    ELSE Append(docs, Passage(Len(docs), chunk, meta, embedding))

\* documents.push of lines 40-45
Push(docs, chunk, meta, embedding) ==
    Append(docs, Passage(Len(docs), chunk, meta, embedding))

\* a loop that asks once more for the chunk whose request failed
RetryAfterNull(call, e) ==
    IF e = Null /\ call.requests = call.next
    THEN [call EXCEPT !.requests = @ + 1]
    ELSE IF call.next < Len(call.chunks)
         THEN [call EXCEPT !.next = @ + 1, !.requests = @ + 1]
         ELSE IdleCall

\* the call after its awaited embedding resolved to e and the chunk was
\* pushed: the next round of the loop requests the next chunk's embedding
\* (line 38), whatever e is; after the last chunk the call returns
AfterResolve(call, e) ==
    IF call.next < Len(call.chunks)
    THEN [call EXCEPT !.next = @ + 1, !.requests = @ + 1]
    ELSE IdleCall

\* the awaited createEmbedding of call c resolves to e (a vector, or null when
\* the request failed); the loop body stores the chunk and the loop goes on
\* to request the next chunk's embedding, or the call returns (lines 38-46)
EmbeddingResolved(c, e) ==
    /\ calls[c].pc = "await"
    /\ documents' = Push(documents, calls[c].chunks[calls[c].next], calls[c].metadata, e)
    /\ calls' = [calls EXCEPT ![c] = AfterResolve(calls[c], e)]
    /\ UNCHANGED <<heap, stats, spc, topK, queryRequests, queryEmbedding, ranking, result, chunkVars, cosVars, chatVars>>

\* search up to its await (lines 104-105); the locals of the new call are
\* not set yet
SearchStart(k) ==
    /\ spc \in {"idle", "done"}
    /\ spc' = "await"
    /\ topK' = k
    /\ queryRequests' = 1
    /\ queryEmbedding' = Null
    /\ ranking' = <<>>
    /\ result' = <<>>
    /\ UNCHANGED <<documents, heap, stats, calls, chunkVars, cosVars, chatVars>>

\* lines 112-115
Similarities(docs, q) ==
    [i \in DOMAIN docs |->
        [id |-> docs[i].id, text |-> docs[i].text, metadata |-> docs[i].metadata,
         embedding |-> docs[i].embedding,
         similarity |-> CosineSimilarity(q, docs[i].embedding)]]

\* a slice that keeps one entry too many
SliceOneMore(s, k) == SubSeq(s, 1, Min(k + 1, Len(s)))

\* similarities.slice(0, topK), line 121
Slice(s, k) == SubSeq(s, 1, Min(k, Len(s)))

\* the map of lines 121-125
Project(s) ==
    [i \in DOMAIN s |->
        [text |-> s[i].text, metadata |-> s[i].metadata, similarity |-> s[i].similarity]]

\* a search that goes on to rank the passages although the query embedding
\* is null
RankAnyway(q) == FALSE

\* the test !queryEmbedding of line 107: null is falsy, an array is truthy
EarlyReturn(q) == q = Null

\* a sort of this.documents itself, in place
SortedInPlace(docs, sorted) ==
    [i \in DOMAIN sorted |->
        [id |-> sorted[i].id, text |-> sorted[i].text,
         metadata |-> sorted[i].metadata, embedding |-> sorted[i].embedding]]

\* this.documents after the sort of line 118: `similarities` is the new
\* array that map built (line 112), so the sort leaves this.documents as is
StoreAfterSort(docs, sorted) == docs

\* the query embedding resolves to q and search runs to its return
\* (lines 105-125); no statement of search throws, and createEmbedding
\* catches what the request throws, so the call always returns ("done")
SearchResolved(q) ==
    /\ spc = "await"
    /\ spc' = "done"
    /\ queryEmbedding' = q
    /\ IF EarlyReturn(q)
       THEN ranking' = <<>> /\ result' = <<>> /\ documents' = documents
       ELSE \E sorted \in SortOutcomes(Similarities(documents, q)) :
                /\ ranking' = sorted
                /\ result' = Project(Slice(sorted, topK))
                /\ documents' = StoreAfterSort(documents, sorted)
    /\ UNCHANGED <<heap, stats, calls, topK, queryRequests, chunkVars, cosVars, chatVars>>

Init ==
    /\ text = <<>>
    /\ maxLength = ChunkSize
    /\ chunks = <<>>
    /\ cpc = "done"
    /\ StoreIdle
    /\ ChatIdle
    /\ CosIdle

\* the object literal { title: doc.title } of line 191, a new object
NewMetadata(h, meta) == Append(h, meta)

\* one round of buildKnowledgeBase's loop (lines 190-193) over a knowledge
\* base of `size` sample documents: the next sample document is handed to
\* addDocument once the previous call has returned; the knowledge base is
\* built before the first query (main, lines 339-350)
BuildStep(size) ==
    /\ kb < size
    /\ spc = "idle"
    /\ \A c \in 1..MaxCalls : calls[c].pc = "idle"
    /\ heap' = NewMetadata(heap, [title |-> Corpus(kb + 1).title])
    /\ AddDocument(1, Corpus(kb + 1).content, Len(heap) + 1)
    /\ kb' = kb + 1

\* a caller hands a document of its own to addDocument, with a metadata
\* object of its own; the object of a document without chunks is held by no
\* passage and is not kept
Ingest(t, meta) ==
    /\ \A c \in 1..MaxCalls : calls[c].pc = "idle"
    /\ Len(documents) + Len(SplitIntoChunks(t, ChunkSize)) <= MaxIngest
    /\ heap' = IF Len(SplitIntoChunks(t, ChunkSize)) = 0 THEN heap
               ELSE NewMetadata(heap, meta)
    /\ AddDocument(1, t, Len(heap) + 1)
    /\ UNCHANGED kb

Resolve(c, e) == EmbeddingResolved(c, e) /\ UNCHANGED kb

\* a query is put once buildKnowledgeBase has returned (line 345 awaits it)
Search(k) ==
    /\ \A c \in 1..MaxCalls : calls[c].pc = "idle"
    /\ SearchStart(k)
    /\ UNCHANGED kb

Answer(q) == SearchResolved(q) /\ UNCHANGED kb

\* the knowledge base is built from the sample documents and searched
Next ==
    \/ BuildStep(MaxDocs)
    \/ \E c \in 1..MaxCalls, e \in EmbeddingOutcomes : Resolve(c, e)
    \/ \E k \in 1..MaxK : Search(k)
    \/ \E q \in EmbeddingOutcomes : Answer(q)

Spec == Init /\ [][Next]_vars

\* the same with one more sample document: a tie next to an inconsistent
\* comparator takes four passages (two equal scores, a third score and a NaN)
LargeNext ==
    \/ BuildStep(MaxDocs + 1)
    \/ \E c \in 1..MaxCalls, e \in EmbeddingOutcomes : Resolve(c, e)
    \/ \E k \in 1..MaxK : Search(k)
    \/ \E q \in EmbeddingOutcomes : Answer(q)

SpecLarge == Init /\ [][LargeNext]_vars

\* documents of any shape are ingested, one call at a time
IngestNext ==
    \/ \E t \in DocTexts, meta \in Metadata : Ingest(t, meta)
    \/ \E c \in 1..MaxCalls, e \in EmbeddingOutcomes : Resolve(c, e)

SpecIngest == Init /\ [][IngestNext]_vars

\* addDocument is called for the next sample document while earlier calls
\* may still await their embeddings (the caller does not await the returned
\* promise before the next call); the call takes the first free slot
Issue(c) ==
    /\ kb < MaxIssued
    /\ calls[c].pc = "idle"
    /\ \A d \in 1..(c - 1) : calls[d].pc # "idle"
    /\ heap' = NewMetadata(heap, [title |-> Corpus(kb + 1).title])
    /\ AddDocument(c, Corpus(kb + 1).content, Len(heap) + 1)
    /\ kb' = kb + 1

\* search is called while addDocument calls may be in flight
SearchAnyTime(k) == SearchStart(k) /\ UNCHANGED kb

\* a caller reads the statistics
Stats ==
    /\ stats' = GetStats(documents)
    /\ UNCHANGED <<documents, heap, calls, kb, spc, topK, queryRequests, queryEmbedding, ranking,
                   result, chunkVars, cosVars, chatVars>>

\* the operations of the store in any interleaving its callers can produce
ConcurrentNext ==
    \/ \E c \in 1..MaxCalls : Issue(c)
    \/ \E c \in 1..MaxCalls, e \in EmbeddingOutcomes : Resolve(c, e)
    \/ \E k \in 1..MaxK : SearchAnyTime(k)
    \/ \E q \in EmbeddingOutcomes : Answer(q)
    \/ Stats

SpecConcurrent == Init /\ [][ConcurrentNext]_vars

\* The caller of search writes to the array it was handed, once per field
\* of an entry.  An entry is the object literal of lines 121-125, a new
\* object; its text and similarity are primitive values; its metadata is
\* doc.metadata, the reference the passage holds (line 123 copies the
\* reference of line 43, not the object).
Returned == spc = "done" /\ result = Project(Slice(ranking, topK))

\* result[i].text = "x"
WriteText(i) ==
    /\ Returned
    /\ i \in DOMAIN result
    /\ result' = [result EXCEPT ![i].text = <<"x">>]
    /\ UNCHANGED <<documents, heap, stats, calls, kb, spc, topK, queryRequests, queryEmbedding,
                   ranking, chunkVars, cosVars, chatVars>>

\* result[i].similarity = 2
WriteSimilarity(i) ==
    /\ Returned
    /\ i \in DOMAIN result
    /\ result' = [result EXCEPT ![i].similarity = Ratio(2, 1, 1)]
    /\ UNCHANGED <<documents, heap, stats, calls, kb, spc, topK, queryRequests, queryEmbedding,
                   ranking, chunkVars, cosVars, chatVars>>

\* result[i].metadata.title = 0
WriteTitle(i) ==
    /\ Returned
    /\ i \in DOMAIN result
    /\ heap[result[i].metadata].title # 0
    /\ heap' = [heap EXCEPT ![result[i].metadata].title = 0]
    /\ UNCHANGED <<documents, stats, calls, kb, spc, topK, queryRequests, queryEmbedding,
                   ranking, result, chunkVars, cosVars, chatVars>>

CallerWrites ==
    \E i \in 1..MaxK : WriteText(i) \/ WriteSimilarity(i) \/ WriteTitle(i)

\* the knowledge base is built and searched, and the caller writes to the
\* results
MutateNext ==
    \/ Next
    \/ CallerWrites

SpecMutate == Init /\ [][MutateNext]_vars

\* A provider whose vectors are [1, 0], [0, 1] and [0.9, 0.1], written in
\* tenths: the cosine of two vectors does not depend on their common scale
\* (the dot product and the product of the norms both grow a hundredfold).
ScenarioBVectors == {<<10, 0>>, <<0, 10>>, <<9, 1>>}

ScenarioBOutcomes == ScenarioBVectors \cup {Null}

\* the knowledge base is built and searched with this provider
ScenarioBNext ==
    \/ BuildStep(MaxDocs)
    \/ \E c \in 1..MaxCalls, e \in ScenarioBOutcomes : Resolve(c, e)
    \/ \E k \in 1..MaxK : Search(k)
    \/ \E q \in ScenarioBOutcomes : Answer(q)

SpecScenarioB == Init /\ [][ScenarioBNext]_vars

----------------------------------------------------------------------------
(* Chunker runs: splitIntoChunks applied to enumerated inputs *)

RECURSIVE SeqsUpTo(_, _)
SeqsUpTo(S, n) ==
    IF n = 0 THEN {<<>>}
    ELSE LET shorter == SeqsUpTo(S, n - 1)
         IN  shorter \cup {Append(s, c) : s \in {x \in shorter : Len(x) = n - 1}, c \in S}

\* "A cat sat. A dog ran. A bird flew."
ScenarioAText ==
    <<"A"," ","c","a","t"," ","s","a","t","."," ",
      "A"," ","d","o","g"," ","r","a","n","."," ",
      "A"," ","b","i","r","d"," ","f","l","e","w",".">>

ChunkInit ==
    /\ \/ text \in SeqsUpTo(Alphabet, MaxTextLen) /\ maxLength \in 1..MaxChunkLen
       \/ text = ScenarioAText /\ maxLength = 20
    /\ chunks = <<>>
    /\ cpc = "call"
    /\ StoreIdle
    /\ ChatIdle
    /\ CosIdle

CallSplit ==
    /\ cpc = "call"
    /\ chunks' = ChunkGroups(text, maxLength)
    /\ cpc' = "done"
    /\ UNCHANGED <<text, maxLength, storeVars, cosVars, chatVars>>

ChunkNext == CallSplit

SpecChunk == ChunkInit /\ [][ChunkNext]_vars

\* the same runs with a maxLength that is zero or negative
InvalidChunkInit ==
    /\ text \in SeqsUpTo(Alphabet, MaxTextLen)
    /\ maxLength \in (-MaxChunkLen)..0
    /\ chunks = <<>>
    /\ cpc = "call"
    /\ StoreIdle
    /\ ChatIdle
    /\ CosIdle

SpecChunkInvalid == InvalidChunkInit /\ [][ChunkNext]_vars

----------------------------------------------------------------------------
(* Cosine runs: cosineSimilarity applied to enumerated vectors *)

CosVectors == ((-MaxComp)..MaxComp) \X ((-MaxComp)..MaxComp)

CosInit ==
    /\ argVec1 \in CosVectors \cup {Null}
    /\ argVec2 \in CosVectors \cup {Null}
    /\ sim = Zero
    /\ vpc = "call"
    /\ text = <<>>
    /\ maxLength = ChunkSize
    /\ chunks = <<>>
    /\ cpc = "done"
    /\ StoreIdle
    /\ ChatIdle

CallCosine ==
    /\ vpc = "call"
    /\ sim' = CosineSimilarity(argVec1, argVec2)
    /\ vpc' = "done"
    /\ UNCHANGED <<argVec1, argVec2, chunkVars, storeVars, chatVars>>

CosNext == CallCosine

SpecCos == CosInit /\ [][CosNext]_vars

----------------------------------------------------------------------------
(* Chatbot runs: the loop of runChatbot over getChatbotResponse and 'new' *)

\* getChatbotResponse up to its await (lines 85-98): the user message is
\* pushed and the completion is requested.  Each caller (runChatbot's loop,
\* runDemoMode's loop) awaits the call before it makes the next one.
GetChatbotResponse(userMessage) ==
    /\ bpc = "idle"
    /\ Len(conversationHistory) + 2 <= MaxHistory
    /\ conversationHistory' =
           Append(conversationHistory, [role |-> "user", content |-> userMessage])
    /\ bpc' = "await"
    /\ UNCHANGED <<ragHistory, message, messages, rpc, chunkVars, storeVars, cosVars>>

\* the completion resolved: the answer is pushed (lines 101-110)
CompletionResolved(assistantMessage) ==
    /\ bpc = "await"
    /\ conversationHistory' =
           Append(conversationHistory, [role |-> "assistant", content |-> assistantMessage])
    /\ bpc' = "idle"
    /\ UNCHANGED <<ragHistory, message, messages, rpc, chunkVars, storeVars, cosVars>>

\* the completion was rejected: the catch block logs and returns the
\* apology (lines 112-118); the history keeps what line 87 pushed
CompletionRejected ==
    /\ bpc = "await"
    /\ bpc' = "idle"
    /\ UNCHANGED <<conversationHistory, ragHistory, message, messages, rpc,
                   chunkVars, storeVars, cosVars>>

\* the command 'new': conversationHistory.length = 1 (line 195)
NewConversation ==
    /\ bpc = "idle"
    /\ Len(conversationHistory) > 1
    /\ conversationHistory' = SubSeq(conversationHistory, 1, 1)
    /\ UNCHANGED <<bpc, ragHistory, message, messages, rpc, chunkVars, storeVars, cosVars>>

\* the commands 'history' and 'info' only print
ChatbotNext ==
    \/ \E userMessage \in UserMessages : GetChatbotResponse(userMessage)
    \/ \E assistantMessage \in Answers : CompletionResolved(assistantMessage)
    \/ CompletionRejected
    \/ NewConversation

SpecChatbot == Init /\ [][ChatbotNext]_vars

----------------------------------------------------------------------------
(* InteractiveRAG runs: chat called again and again, each call awaited *)

\* chat up to its first await (lines 298-302): the user message is pushed
\* and the search is started
Chat(m) ==
    /\ rpc = "idle"
    /\ Len(ragHistory) + 2 <= MaxHistory
    /\ message' = m
    /\ ragHistory' = Append(ragHistory, [role |-> "user", content |-> m])
    /\ rpc' = "search"
    /\ UNCHANGED <<messages, conversationHistory, bpc, chunkVars, storeVars, cosVars>>

\* the search returned (it never rejects: see SearchResolved): the
\* context is joined, `messages` is built and sent (lines 303-324)
ChatSearched(context) ==
    /\ rpc = "search"
    /\ messages' = Messages(context, ragHistory)
    /\ rpc' = "await"
    /\ UNCHANGED <<ragHistory, message, conversationHistory, bpc, chunkVars, storeVars, cosVars>>

\* the completion resolved: the answer is pushed (lines 326-329)
ChatResolved(answer) ==
    /\ rpc = "await"
    /\ ragHistory' = Append(ragHistory, [role |-> "assistant", content |-> answer])
    /\ rpc' = "idle"
    /\ UNCHANGED <<message, messages, conversationHistory, bpc, chunkVars, storeVars, cosVars>>

\* the completion was rejected: the catch block returns the error text
\* (lines 331-334)
ChatRejected ==
    /\ rpc = "await"
    /\ rpc' = "idle"
    /\ UNCHANGED <<ragHistory, message, messages, conversationHistory, bpc,
                   chunkVars, storeVars, cosVars>>

ChatNext ==
    \/ \E m \in UserMessages : Chat(m)
    \/ \E context \in Contexts : ChatSearched(context)
    \/ \E answer \in Answers : ChatResolved(answer)
    \/ ChatRejected

SpecChat == Init /\ [][ChatNext]_vars

----------------------------------------------------------------------------
(* Properties of search *)

\* C1: the results of search are sorted by descending similarity: for any
\* two results at positions i < j, score[i] >= score[j].
C1_SearchOrdering ==
    spc = "done" =>
        \A i, j \in DOMAIN result :
            i < j => NumGeq(result[i].similarity, result[j].similarity)

\* C2: of two stored passages with identical similarity to the query, the
\* one inserted earlier is ranked (and so returned) before the other.
C2_StableTies ==
    spc = "done" =>
        \A i \in DOMAIN result, j \in DOMAIN ranking :
            i < j /\ NumEq(ranking[i].similarity, ranking[j].similarity)
                => ranking[i].id < ranking[j].id

\* the entry search returns for a ranked document
Entry(d) == [text |-> d.text, metadata |-> d.metadata, similarity |-> d.similarity]

\* the ranking holds every stored passage once, with its score for the query
RankingOfStore ==
    /\ Len(ranking) = Len(documents)
    /\ \A n \in DOMAIN documents :
           \E i \in DOMAIN ranking :
               ranking[i] = Similarities(documents, queryEmbedding)[n]

\* C3: when the query embedding succeeds, search returns exactly the first
\* min(k, number of stored passages) entries of the ranking, each with the
\* passage's text, metadata and similarity score.
C3_TopKPrefix ==
    spc = "done" /\ queryEmbedding # Null =>
        /\ RankingOfStore
        /\ Len(result) = Min(topK, Len(documents))
        /\ \A i \in DOMAIN result : result[i] = Entry(ranking[i])

\* C3 witness: a search that cut the ranking to its first topK entries
C3_Witness ==
    /\ spc = "done"
    /\ queryEmbedding # Null
    /\ topK = 2
    /\ Len(documents) = 3
    /\ Len(result) = 2
    /\ result[1].metadata # result[2].metadata

\* a search call has ended: it returned ("done") or it threw ("raised")
SearchEnded == spc \in {"done", "raised"}

\* C11 as claimed: when the embedding of the query text fails, search ends
\* by raising an error to its caller; it does not return a result list.
C11_QueryEmbeddingFailed ==
    SearchEnded /\ queryEmbedding = Null => spc = "raised"

\* C11 as amended: when the embedding of the query text fails, search
\* recovers: it returns normally, with an empty result list, whatever the
\* store holds.
C11_EmptyOnFailure ==
    SearchEnded /\ queryEmbedding = Null => spc = "done" /\ result = <<>>

\* C11 witness: a search over a store of three passages whose query
\* embedding failed has returned
C11_Witness ==
    /\ spc = "done"
    /\ queryEmbedding = Null
    /\ Len(documents) = 3
    /\ \E i \in DOMAIN documents : documents[i].embedding # Null
    /\ result = <<>>

\* passages P1 [1, 0], P2 [0, 1] and P3 [0.9, 0.1] were stored in this
\* order, and a search with query vector [1, 0] and topK = 2 has returned
ScenarioB ==
    /\ Len(documents) = 3
    /\ documents[1].embedding = <<10, 0>>
    /\ documents[2].embedding = <<0, 10>>
    /\ documents[3].embedding = <<9, 1>>
    /\ spc = "done"
    /\ topK = 2
    /\ queryEmbedding = <<10, 0>>

\* the result entry r is the entry of the stored passage d
EntryOf(r, d) == r.text = d.text /\ r.metadata = d.metadata

\* C20: in scenario B the search returns exactly [P1, P3], in this order,
\* P1 with score 1 and P3 with a score strictly between 0 and 1; P2 is not
\* returned.
C20_ScenarioB ==
    ScenarioB =>
        /\ Len(result) = 2
        /\ EntryOf(result[1], documents[1])
        /\ NumEq(result[1].similarity, One)
        /\ EntryOf(result[2], documents[3])
        /\ ~IsNaN(result[2].similarity)
        /\ RealLess(Zero, result[2].similarity)
        /\ RealLess(result[2].similarity, One)
        /\ \A i \in DOMAIN result : ~EntryOf(result[i], documents[2])

\* C20 witness: the search of scenario B has returned two entries
C20_Witness ==
    /\ ScenarioB
    /\ Len(result) = 2
    /\ result[2].similarity = Ratio(90, 100, 82)

\* a search whose query embedding succeeded has returned, over a store that
\* holds a passage without a vector
SearchedWithNullPassage ==
    /\ spc = "done"
    /\ queryEmbedding # Null
    /\ \E n \in DOMAIN documents : documents[n].embedding = Null

\* C25: a passage whose vector is null is scored 0, and the search still
\* ranks all passages in a total order (descending score) that contains the
\* passage with score 0; the returned list is the head of that ranking.
C25_NullScoredZero ==
    SearchedWithNullPassage =>
        /\ \A n \in DOMAIN documents :
               documents[n].embedding = Null
                   => \E i \in DOMAIN ranking :
                          /\ ranking[i].id = documents[n].id
                          /\ NumEq(ranking[i].similarity, Zero)
        /\ \A i, j \in DOMAIN ranking :
               i < j => NumGeq(ranking[i].similarity, ranking[j].similarity)

\* the store as it would be had the chunks whose embedding failed never
\* been added: the other passages in their order, with the ids of their
\* positions
SkippedStore(docs) ==
    LET kept == SelectSeq(docs, LAMBDA d : d.embedding # Null)
    IN  [i \in DOMAIN kept |-> [kept[i] EXCEPT !.id = i - 1]]

\* what search(q, k) can return on a store
SearchResults(docs, q, k) ==
    {Project(Slice(sorted, k)) : sorted \in SortOutcomes(Similarities(docs, q))}

\* C26 as claimed: keeping a chunk whose embedding failed, with a null
\* embedding, has the ranking effect of skipping it: the search returns what
\* it returns on the store without the chunk, for every k >= 1.
C26_KeepEqualsSkip ==
    SearchedWithNullPassage =>
        result \in SearchResults(SkippedStore(documents), queryEmbedding, topK)

\* C26 as amended: keeping is not skipping.  The kept passage is ranked with
\* score 0, and a search with k greater than the number of other passages
\* returns it: one result more than on the store without the chunk.
C26_KeptPassageReturned ==
    SearchedWithNullPassage /\ topK >= Len(documents) =>
        /\ Len(result) = Len(documents)
        /\ \A n \in DOMAIN documents :
               documents[n].embedding = Null
                   => \E i \in DOMAIN result :
                          /\ EntryOf(result[i], documents[n])
                          /\ NumEq(result[i].similarity, Zero)
        /\ \A other \in SearchResults(SkippedStore(documents), queryEmbedding, topK) :
               Len(other) < Len(result)

\* C26 witness: a search with k = 3 over one null-embedding passage and two
\* passages with vectors has returned all three
C26_Witness ==
    /\ SearchedWithNullPassage
    /\ topK = 3
    /\ Len(result) = 3
    /\ Len(SkippedStore(documents)) = 2
    /\ documents[2].embedding = Null

----------------------------------------------------------------------------
(* Properties of ingest *)

\* C9: every chunk the chunker emits, and so the text of every stored
\* passage, is a non-empty string.
C9_NonEmptyPassages ==
    \A i \in DOMAIN documents : Len(documents[i].text) > 0

\* C10 as claimed: while a multi-chunk document is ingested, a chunk whose
\* embedding failed is skipped: no passage is added for it.
C10_FailedChunkSkipped ==
    [][\A c \in 1..MaxCalls :
          (calls[c].pc = "await" /\ Len(calls[c].chunks) > 1
              /\ Len(documents') > Len(documents))
          => documents'[Len(documents')].embedding # Null]_vars

\* C10 as amended: while a multi-chunk document is ingested, every chunk is
\* stored when its embedding request resolves, with the vector or with null
\* when the request failed, and the call goes on with the remaining chunks.
C10_FailedChunkStored ==
    [][\A c \in 1..MaxCalls :
          (calls[c].pc = "await" /\ Len(calls[c].chunks) > 1 /\ calls'[c] # calls[c])
          => /\ Len(documents') = Len(documents) + 1
             /\ SubSeq(documents', 1, Len(documents)) = documents
             /\ documents'[Len(documents')].text = calls[c].chunks[calls[c].next]
             /\ documents'[Len(documents')].embedding \in EmbeddingOutcomes
             /\ calls[c].next < Len(calls[c].chunks)
                   => /\ calls'[c].pc = "await"
                      /\ calls'[c].next = calls[c].next + 1]_vars

\* C10 witness: both chunks of a two-chunk document are stored, the first
\* with a failed (null) embedding, the second with a vector
C10_Witness ==
    /\ Len(documents) = 2
    /\ \A c \in 1..MaxCalls : calls[c].pc = "idle"
    /\ Len(documents[1].text) = ChunkSize - 1
    /\ documents[1].embedding = Null
    /\ documents[2].text = <<"b", "b">>
    /\ documents[2].embedding # Null

\* the first sample document was ingested into a fresh store, the call has
\* returned, the embedding of its single chunk failed (no stored passage has
\* a vector), and a later search whose query embedding succeeded has returned
FailedIngestThenQuery ==
    /\ kb = 1
    /\ \A c \in 1..MaxCalls : calls[c].pc = "idle"
    /\ \A i \in DOMAIN documents : documents[i].embedding = Null
    /\ spc = "done"
    /\ queryEmbedding # Null

\* C12 as claimed: after the ingest of a document whose single chunk's
\* embedding failed, a query with a successful embedding returns an empty
\* result list.
C12_EmptyAfterFailedIngest ==
    FailedIngestThenQuery => result = <<>>

\* C12 as amended: the ingest has stored the chunk as a passage with a null
\* embedding, and the query returns a list with that one passage, scored 0.
C12_NullPassageReturned ==
    FailedIngestThenQuery =>
        /\ Len(documents) = 1
        /\ documents[1].text = SplitIntoChunks(Corpus(1).content, ChunkSize)[1]
        /\ Len(result) = 1
        /\ result[1].text = documents[1].text
        /\ NumEq(result[1].similarity, Zero)

\* C12 witness: such a query has returned the passage
C12_Witness ==
    /\ FailedIngestThenQuery
    /\ Len(documents) = 1
    /\ Len(result) = 1
    /\ queryEmbedding = <<1, 1>>

\* C13: the ids of the stored passages, read in insertion order, are
\* 0, 1, 2, ...: strictly increasing, without gaps, unique, and in the
\* order in which the passages were added.
C13_GapFreeIds ==
    \A i \in DOMAIN documents : documents[i].id = i - 1

\* C13 witness: two passages were added by calls that completed out of
\* their issue order
C13_Witness ==
    /\ Len(documents) = 2
    /\ heap[documents[1].metadata].title = 2
    /\ documents[2].id = 1

\* a stored passage as a caller reads it: the metadata object by its content
Stored(d, h) ==
    [id |-> d.id, text |-> d.text, metadata |-> h[d.metadata], embedding |-> d.embedding]

\* C14: across addDocument, search and getStats a stored passage keeps its
\* position, id, text, metadata and vector, and the collection never
\* shrinks.
C14_AppendOnly ==
    [][/\ Len(documents') >= Len(documents)
       /\ \A i \in DOMAIN documents :
              /\ documents'[i] = documents[i]
              /\ Stored(documents'[i], heap') = Stored(documents[i], heap)]_vars

\* C14 witness: a store that was searched and whose statistics were read
\* when it held one passage has taken a second passage since
C14_Witness ==
    /\ Len(documents) = 2
    /\ spc = "done"
    /\ Len(result) = 1
    /\ stats.documentCount = 1

\* C15: a write of the caller to any part of a returned result (text,
\* metadata mapping or score) leaves the index unchanged, the metadata of
\* every stored passage included.
C15_ResultsAreCopies ==
    [][CallerWrites =>
          /\ Len(documents') = Len(documents)
          /\ \A i \in DOMAIN documents :
                 Stored(documents'[i], heap') = Stored(documents[i], heap)]_vars

RECURSIVE SumOfLengths(_)
SumOfLengths(docs) ==
    IF docs = <<>> THEN 0 ELSE Len(Head(docs).text) + SumOfLengths(Tail(docs))

\* C21: a call of getStats on an empty index returns count 0, total 0 and
\* average 0; on a non-empty index it returns the number of stored passages
\* as count and the sum of their text lengths as totalCharacters.
C21_Stats ==
    [][stats' # stats =>
          IF documents = <<>>
          THEN stats' = [documentCount |-> 0, totalCharacters |-> 0, averageChunkSize |-> 0]
          ELSE /\ stats'.documentCount = Len(documents)
               /\ stats'.totalCharacters = SumOfLengths(documents)]_vars

\* C21 witness: the statistics were read when the index held two passages
\* of different lengths ("a." and "aa.")
C21_Witness ==
    /\ Len(documents) = 2
    /\ Len(documents[1].text) # Len(documents[2].text)
    /\ stats.documentCount = 2
    /\ stats.totalCharacters = 5
    /\ stats.averageChunkSize = 2

\* C22 as claimed: every stored passage holds a vector, and all stored
\* vectors have the same length, whatever the provider returned or failed
\* to return.
C22_AllHoldVectors ==
    /\ \A i \in DOMAIN documents : documents[i].embedding # Null
    /\ \A i, j \in DOMAIN documents :
           Len(documents[i].embedding) = Len(documents[j].embedding)

\* C22 as amended: every stored passage holds what its embedding request
\* resolved to, a vector of the provider or null when the request failed,
\* and the stored vectors (the passages that hold one) have the same length.
C22_VectorOrNull ==
    [][/\ \A c \in 1..MaxCalls, e \in EmbeddingOutcomes :
              Resolve(c, e) => documents'[Len(documents')].embedding = e
       /\ \A i, j \in DOMAIN documents' :
              \/ documents'[i].embedding = Null
              \/ documents'[j].embedding = Null
              \/ /\ documents'[i].embedding \in Vectors
                 /\ Len(documents'[i].embedding) = Len(documents'[j].embedding)]_vars

\* C22 witness: a store that holds a vector for one passage and null for
\* the next
C22_Witness ==
    /\ Len(documents) = 2
    /\ documents[1].embedding \in Vectors
    /\ documents[2].embedding = Null

\* C23: no embedding request is repeated: an addDocument call that returns
\* has issued exactly one request per chunk, every request it issues after
\* a resolved one (vector or failure) is for the next chunk, and a search
\* call issues exactly one request, whether the request succeeds or fails.
C23_NoRetry ==
    [][/\ \A c \in 1..MaxCalls :
              calls[c].pc = "await" /\ calls'[c].pc = "idle"
                  => calls[c].requests = Len(calls[c].chunks)
       /\ \A c \in 1..MaxCalls, e \in EmbeddingOutcomes :
              Resolve(c, e) /\ calls'[c].pc = "await"
                  => /\ calls'[c].next = calls[c].next + 1
                     /\ calls'[c].requests = calls[c].requests + 1
       /\ spc' \in {"await", "done"} => queryRequests' = 1]_vars

\* C23 witness: an ingest whose request failed has returned, and a search
\* whose request failed has returned after it
C23_Witness ==
    /\ Len(documents) = 2
    /\ documents[2].embedding = Null
    /\ \A c \in 1..MaxCalls : calls[c].pc = "idle"
    /\ spc = "done"
    /\ queryEmbedding = Null
    /\ queryRequests = 1

\* the embedding requests of a call that have not resolved yet: those it
\* issued less those whose chunk was pushed
Outstanding(call) == call.requests - (call.next - 1)

\* C24: within one addDocument call at most one embedding request is
\* outstanding, and the request for the next chunk is issued only in the
\* step that pushes the previous chunk, after its embedding resolved.
C24_OneAtATime ==
    [][\A c \in 1..MaxCalls :
          /\ calls'[c].pc = "await" => Outstanding(calls'[c]) = 1
          /\ calls[c].pc = "await" /\ calls'[c].requests > calls[c].requests
                => /\ Len(documents') = Len(documents) + 1
                   /\ documents'[Len(documents')].text = calls[c].chunks[calls[c].next]
                   /\ calls'[c].next = calls[c].next + 1]_vars

\* C24 witness: the second chunk of a document is awaited, the first one is
\* stored
C24_Witness ==
    \E c \in 1..MaxCalls :
        /\ calls[c].pc = "await"
        /\ calls[c].next = 2
        /\ calls[c].requests = 2
        /\ Len(documents) = 1
        /\ documents[1].text = calls[c].chunks[1]

\* a step of a search call (its start, or its return after the query
\* embedding succeeded or failed) or a call of getStats
ReadStep == spc' # spc \/ stats' # stats

\* C27: a step of search (whether the query embedding succeeds or fails)
\* or of getStats leaves the stored passages as they are: the same
\* passages in the same order with the same ids, texts, metadata and
\* vectors.
C27_ReadsLeaveStore ==
    [][ReadStep
          => /\ documents' = documents
             /\ \A i \in DOMAIN documents :
                    Stored(documents'[i], heap') = Stored(documents[i], heap)]_vars

\* C27 witness: a search has ranked the later passage first, and the
\* statistics were read, over a store of two passages
C27_Witness ==
    /\ Len(documents) = 2
    /\ spc = "done"
    /\ Len(ranking) = 2
    /\ ranking[1].id = 1
    /\ documents[1].id = 0
    /\ stats.documentCount = 2

\* C28: in every interleaving of overlapping addDocument calls the passage
\* at (zero-based) position i has id i: the ids are unique and equal to the
\* insertion positions.
C28_IdIsPosition ==
    /\ \A i \in 0..(Len(documents) - 1) : documents[i + 1].id = i
    /\ \A i, j \in DOMAIN documents : i # j => documents[i].id # documents[j].id

\* C28 witness: the call issued second has stored its passage while the
\* call issued first still awaits its embedding
C28_Witness ==
    /\ Len(documents) = 1
    /\ heap[documents[1].metadata].title = 2
    /\ documents[1].id = 0
    /\ calls[1].pc = "await"

\* C16: with addDocument calls in flight at once, the passages are stored
\* in the order in which the calls were issued (the sample documents are
\* issued in the order of their titles).
C16_IssueOrder ==
    \A i, j \in DOMAIN documents :
        i < j => heap[documents[i].metadata].title <= heap[documents[j].metadata].title

----------------------------------------------------------------------------
(* Properties of splitIntoChunks *)

\* C5: every emitted chunk has length <= maxLength, except a chunk that
\* consists of exactly one sentence which is itself longer than maxLength.
C5_ChunkBound ==
    cpc = "done" =>
        \A k \in DOMAIN chunks :
            \/ Len(chunks[k].text) <= maxLength
            \/ Len(chunks[k].sentences) = 1 /\ Len(chunks[k].sentences[1]) > maxLength

\* C6: "A cat sat. A dog ran. A bird flew." with maxLength = 20 yields
\* ["A cat sat.", "A dog ran.", "A bird flew."].
C6_ScenarioA ==
    cpc = "done" /\ text = ScenarioAText /\ maxLength = 20 =>
        [k \in DOMAIN chunks |-> chunks[k].text]
            = << <<"A"," ","c","a","t"," ","s","a","t",".">>,
                 <<"A"," ","d","o","g"," ","r","a","n",".">>,
                 <<"A"," ","b","i","r","d"," ","f","l","e","w",".">> >>

IsBlank(s) == \A i \in DOMAIN s : IsSpace(s[i])

\* C7: the empty string and every whitespace-only string yield an empty
\* sequence of chunks.
C7_BlankInput ==
    cpc = "done" /\ IsBlank(text) => chunks = <<>>

RECURSIVE Concat(_)
Concat(ss) == IF ss = <<>> THEN <<>> ELSE Head(ss) \o Concat(Tail(ss))

\* s without its whitespace
NoSpace(s) == SelectSeq(s, LAMBDA c : ~IsSpace(c))

\* C8: no sentence is dropped: the (non-blank) sentences of the input
\* appear, each once and in their order, in the chunks, and the chunks
\* concatenated reproduce the input up to whitespace.
C8_Completeness ==
    cpc = "done" =>
        /\ SelectSeq(Concat([k \in DOMAIN chunks |-> chunks[k].sentences]),
                     LAMBDA s : ~IsBlank(s))
              = SelectSeq(SplitSentences(text), LAMBDA s : ~IsBlank(s))
        /\ NoSpace(Concat([k \in DOMAIN chunks |-> chunks[k].text])) = NoSpace(text)

\* C17: called with maxLength <= 0 the chunker ends by raising an error
\* (InvalidChunkLength) and emits no chunk.
C17_InvalidChunkLength ==
    cpc # "call" /\ maxLength <= 0 => cpc = "raised" /\ chunks = <<>>

----------------------------------------------------------------------------
(* Properties of cosineSimilarity *)

IsZeroVector(v) == v # Null /\ \A i \in DOMAIN v : v[i] = 0

\* C4: with an all-zero vector as either argument cosineSimilarity returns
\* 0, never NaN.
C4_ZeroVectorSafety ==
    vpc = "done" /\ (IsZeroVector(argVec1) \/ IsZeroVector(argVec2)) =>
        NumEq(sim, Zero)

\* C18: cosineSimilarity is symmetric: the number returned for (a, b)
\* equals (JavaScript ==) the number returned for (b, a).
C18_Symmetry ==
    vpc = "done" => NumEq(sim, CosineSimilarity(argVec2, argVec1))

\* cosineSimilarity was called with one non-zero vector as both arguments
SelfCall ==
    vpc = "done" /\ argVec1 # Null /\ argVec1 = argVec2 /\ ~IsZeroVector(argVec1)

\* C19 as claimed: for a non-zero vector a, cosineSimilarity(a, a) equals 1
\* (the returned double is 1).
C19_SelfSimilarityExact ==
    SelfCall => SelfIsExactlyOne(sim)

\* C19 as amended: for a non-zero vector a, cosineSimilarity(a, a) is the
\* rounded value of a quotient whose real value is 1, so it equals 1 within
\* the floating-point tolerance; it need not be the double 1.
C19_SelfSimilarityOne ==
    SelfCall => NumEq(sim, One)

\* C19 witness: the self-similarity of [1, 1], which is 0.9999999999999998
C19_Witness ==
    /\ SelfCall
    /\ argVec1 = <<1, 1>>
    /\ NumEq(sim, One)
    /\ ~SelfIsExactlyOne(sim)

----------------------------------------------------------------------------
(* Properties of the conversations *)

\* C29: whenever the chatbot is between calls, conversationHistory is the
\* system message followed by messages whose roles alternate user,
\* assistant, user, assistant, ..., beginning with a user message.
C29_Alternation ==
    bpc = "idle" =>
        /\ conversationHistory[1] = SystemMessage
        /\ \A i \in 2..Len(conversationHistory) :
               conversationHistory[i].role = IF i % 2 = 0 THEN "user" ELSE "assistant"

\* C30: the messages of every request of chat are one system message
\* followed by the last entries of conversationHistory, at most 5 of them
\* and none of them a system message, the last being the user message of
\* this call.
C30_MessagesWindow ==
    rpc = "await" =>
        LET sent == Tail(messages)
            n == Len(sent)
        IN  /\ messages[1].role = "system"
            /\ \A i \in DOMAIN sent : sent[i].role # "system"
            /\ n <= 5
            /\ n = IF Len(ragHistory) < 5 THEN Len(ragHistory) ELSE 5
            /\ \A i \in 1..n : sent[i] = ragHistory[Len(ragHistory) - n + i]
            /\ sent[n] = [role |-> "user", content |-> message]

\* a request whose history is longer than the window and holds a user
\* message that a failed call left without an answer
C30_Witness ==
    /\ rpc = "await"
    /\ Len(ragHistory) > 5
    /\ Len(messages) = 6
    /\ \E i \in 1..(Len(ragHistory) - 1) :
           ragHistory[i].role = "user" /\ ragHistory[i + 1].role = "user"

====
